---- MODULE Spec2Model ----
(***************************************************************************)
(* The five dashboard pages of ende_distribucion: the wide-to-long reshape *)
(* done by each page's load_and_transform_data, then the date filter, the  *)
(* selections of the sidebar and the series, ratios and statistics the     *)
(* page computes from the filtered table, and the runs of the script that  *)
(* follow one another in a session, with the load held by st.cache_data.   *)
(*                                                                         *)
(* A string is a sequence of one-character strings, so that strip, split, *)
(* slicing, int() and strftime are computed character by character.       *)
(***************************************************************************)
EXTENDS Integers, Sequences, FiniteSets, TLC

VARIABLES
    page,       \* which page script runs
    file,       \* the spreadsheet on disk the page reads
    df,         \* what load_and_transform_data returned (None before the load)
    end_date,   \* the end of the date mapping built by the load (NaT if none)
    msgs,       \* st.info / st.error / st.warning calls made by the load
    pc,         \* position of the script: "start", "loaded", "stopped",
                \* "filtered", "rendered", "fault" (an uncaught exception)
    tz,                 \* hours the local clock is ahead of UTC in this run
    selected_range,     \* the two ends of the date slider
    df_filtered,        \* the records the date filter kept
    selected_empresa,   \* st.sidebar.selectbox("Seleccionar Empresa", ...)
    agentes_disponibles, \* the options of the agent selectbox
    selected_agente,    \* st.sidebar.selectbox("Seleccionar Agente", ...)
    tab1,               \* what "Visión Detallada" computed
    tab2,               \* what "Visión de Promedios" computed
    cache,      \* the entry st.cache_data holds for load_and_transform_data
    computed,   \* how many times the body of load_and_transform_data ran
    runs,       \* how many times the script was started
    changed     \* whether the spreadsheet was replaced since the first run

loader_vars == <<page, file, df, end_date, msgs>>

view_vars == <<tz, selected_range, df_filtered, selected_empresa,
               agentes_disponibles, selected_agente, tab1, tab2>>

session_vars == <<cache, computed, runs, changed>>

vars == <<loader_vars, pc, view_vars, session_vars>>

---------------------------------------------------------------------------
(* Bounds of the model *)

MaxCols == 2    \* value columns of a raw table
MaxRows == 2    \* rows of a raw table
MaxRuns == 3    \* runs of the script in a session

---------------------------------------------------------------------------
(* Characters and strings *)

DigitChars == <<"0", "1", "2", "3", "4", "5", "6", "7", "8", "9">>

IsDigit(c) == \E i \in 1..10 : DigitChars[i] = c

DigitVal(c) == (CHOOSE i \in 1..10 : DigitChars[i] = c) - 1

DigitChar(n) == DigitChars[n + 1]

AllDigits(s) == \A i \in 1..Len(s) : IsDigit(s[i])

\* the value of a non-empty string of decimal digits
RECURSIVE DigitsVal(_)
DigitsVal(s) ==
    IF Len(s) = 0 THEN 0
    ELSE 10 * DigitsVal(SubSeq(s, 1, Len(s) - 1)) + DigitVal(s[Len(s)])

\* str(n) of a non-negative integer
RECURSIVE StrOfNat(_)
StrOfNat(n) ==
    IF n < 10 THEN <<DigitChar(n)>>
    ELSE StrOfNat(n \div 10) \o <<DigitChar(n % 10)>>

\* zero-padded decimal of n on w characters (strftime's %m, %y, %Y, %d)
RECURSIVE ZeroPad(_, _)
ZeroPad(n, w) ==
    IF w = 0 THEN <<>>
    ELSE ZeroPad(n \div 10, w - 1) \o <<DigitChar(n % 10)>>

IsSpace(c) == c = " "

\* str.strip()
RECURSIVE LStrip(_)
LStrip(s) ==
    IF Len(s) > 0 /\ IsSpace(s[1]) THEN LStrip(Tail(s)) ELSE s

RECURSIVE RStrip(_)
RStrip(s) ==
    IF Len(s) > 0 /\ IsSpace(s[Len(s)]) THEN RStrip(SubSeq(s, 1, Len(s) - 1)) ELSE s

Strip(s) == RStrip(LStrip(s))

\* sub in s
Contains(sub, s) ==
    \E i \in 1..(Len(s) - Len(sub) + 1) : SubSeq(s, i, i + Len(sub) - 1) = sub

\* s.split()[-1] of a string holding at least one non-space character
LastToken(s) ==
    LET t == RStrip(s)
        spaces == {i \in 1..Len(t) : IsSpace(t[i])}
        from == IF spaces = {} THEN 1
                ELSE (CHOOSE i \in spaces : \A j \in spaces : j <= i) + 1
    IN  SubSeq(t, from, Len(t))

\* Python slicing s[a:b] with 0 <= a <= b
Slice(s, a, b) ==
    LET hi == IF b < Len(s) THEN b ELSE Len(s)
    IN  IF a >= hi THEN <<>> ELSE SubSeq(s, a + 1, hi)

\* str.replace(c, '')
RECURSIVE RemoveChar(_, _)
RemoveChar(s, c) ==
    IF Len(s) = 0 THEN <<>>
    ELSE IF s[1] = c THEN RemoveChar(Tail(s), c)
    ELSE <<s[1]>> \o RemoveChar(Tail(s), c)

---------------------------------------------------------------------------
(* Python's int(str): an optional sign, then decimal digits that single   *)
(* underscores may separate.  [ok |-> FALSE] stands for ValueError.        *)

IntBody(s) ==
    /\ Len(s) > 0
    /\ \A i \in 1..Len(s) : IsDigit(s[i]) \/ s[i] = "_"
    /\ IsDigit(s[1]) /\ IsDigit(s[Len(s)])
    /\ \A i \in 1..(Len(s) - 1) : ~(s[i] = "_" /\ s[i + 1] = "_")

int(s) ==
    LET signed == Len(s) > 0 /\ s[1] \in {"+", "-"}
        body == IF signed THEN Tail(s) ELSE s
    IN  IF IntBody(body)
        THEN [ok |-> TRUE,
              n |-> IF signed /\ s[1] = "-"
                    THEN 0 - DigitsVal(RemoveChar(body, "_"))
                    ELSE DigitsVal(RemoveChar(body, "_"))]
        ELSE [ok |-> FALSE, n |-> 0]

---------------------------------------------------------------------------
(* Dates.  Every date of the program is a midnight; NaT is pandas' missing *)
(* date.                                                                   *)

NaT == [year |-> 0, month |-> 0, day |-> 0]

notna(d) == d # NaT

\* datetime(year, month, day): ValueError outside 1..9999 and 1..12 (the
\* program only ever passes day 1)
datetime(year, month, day) ==
    IF year \in 1..9999 /\ month \in 1..12 /\ day \in 1..28
    THEN [ok |-> TRUE, v |-> [year |-> year, month |-> month, day |-> day]]
    ELSE [ok |-> FALSE, v |-> NaT]

\* a <= b on datetimes
DateLE(a, b) ==
    \/ a.year < b.year
    \/ a.year = b.year /\ a.month < b.month
    \/ a.year = b.year /\ a.month = b.month /\ a.day <= b.day

\* "Mover al siguiente mes"
NextMonth(d) ==
    IF d.month = 12
    THEN [d EXCEPT !.year = d.year + 1, !.month = 1]
    ELSE [d EXCEPT !.month = d.month + 1]

UpperChars == <<"A", "B", "C", "D", "E", "F", "G", "H", "I", "J", "K", "L", "M",
                "N", "O", "P", "Q", "R", "S", "T", "U", "V", "W", "X", "Y", "Z">>

LowerChars == <<"a", "b", "c", "d", "e", "f", "g", "h", "i", "j", "k", "l", "m",
                "n", "o", "p", "q", "r", "s", "t", "u", "v", "w", "x", "y", "z">>

\* str.lower()
lower(s) ==
    [i \in 1..Len(s) |->
        IF \E k \in 1..26 : UpperChars[k] = s[i]
        THEN LowerChars[CHOOSE k \in 1..26 : UpperChars[k] = s[i]]
        ELSE s[i]]

\* strftime: '%m%Y' on energia, potencia and potencia_distribuidoras,
\* '%m%y' lower-cased on precio_potencia, '%Y-%m-01' for the mapped value
strftime(d, fmt) ==
    CASE fmt = "%m%Y" -> ZeroPad(d.month, 2) \o ZeroPad(d.year, 4)
      [] fmt = "%m%y" -> ZeroPad(d.month, 2) \o ZeroPad(d.year % 100, 2)
      [] fmt = "%Y-%m-01" ->
            ZeroPad(d.year, 4) \o <<"-">> \o ZeroPad(d.month, 2) \o <<"-", "0", "1">>

NaTStr == <<"N", "a", "T">>

\* the while loop that fills date_mapping, one month per iteration; a key
\* met again overwrites its value, as a dict does
RECURSIVE BuildDateMapping(_, _, _, _)
BuildDateMapping(current_date, end, fmt, date_mapping) ==
    IF ~DateLE(current_date, end) THEN date_mapping
    ELSE LET key == IF fmt = "%m%y" THEN lower(strftime(current_date, fmt))
                    ELSE strftime(current_date, fmt)
             value == strftime(current_date, "%Y-%m-01")
         IN  BuildDateMapping(
                 NextMonth(current_date), end, fmt,
                 [k \in (DOMAIN date_mapping) \cup {key} |->
                     IF k = key THEN value ELSE date_mapping[k]])

EmptyMapping == [k \in {} |-> NaTStr]

\* date_mapping.get(key, pd.NaT)
MappingGet(date_mapping, key) ==
    IF key \in DOMAIN date_mapping THEN date_mapping[key] ELSE NaTStr

\* pd.to_datetime of one value of the FECHA column: 'YYYY-MM-DD' or NaT
to_datetime(v) ==
    IF v = NaTStr THEN NaT
    ELSE [year |-> DigitsVal(SubSeq(v, 1, 4)),
          month |-> DigitsVal(SubSeq(v, 6, 7)),
          day |-> DigitsVal(SubSeq(v, 9, 10))]

\* start_date = datetime(2023, 1, 1)
start_date == [year |-> 2023, month |-> 1, day |-> 1]

\* end_date = datetime(2025, 12, 1)
fixed_end_date == [year |-> 2025, month |-> 12, day |-> 1]

---------------------------------------------------------------------------
(* Cells of the spreadsheet: a number, a blank (NaN) or a text *)

NaN == [k |-> "nan", n |-> 0, s |-> <<>>]

Num(n) == [k |-> "num", n |-> n, s |-> <<>>]

Text(s) == [k |-> "text", n |-> 0, s |-> s]

isna(c) == c.k = "nan"

\* Series.astype(str) of one cell
astype_str(c) ==
    CASE c.k = "num" -> IF c.n < 0 THEN <<"-">> \o StrOfNat(-c.n) ELSE StrOfNat(c.n)
      [] c.k = "nan" -> <<"n", "a", "n">>
      [] c.k = "text" -> c.s

\* pd.to_numeric(..., errors='coerce') of one string: a string of decimal
\* digits is its number, with a minus sign its opposite, anything else of
\* the cell alphabet is NaN
to_numeric(s) ==
    IF Len(s) > 0 /\ AllDigits(s) THEN Num(DigitsVal(s))
    ELSE IF Len(s) > 1 /\ s[1] = "-" /\ AllDigits(Tail(s)) THEN Num(-DigitsVal(Tail(s)))
    ELSE NaN

---------------------------------------------------------------------------
(* The pages, their measurement label and their spreadsheet *)

Pages == {"energia", "potencia", "potencia_distribuidoras",
          "precio_potencia", "precios_peaje_distribucion"}

LabelEnergia == <<"E", "n", "e", "r", "g", "í", "a", " ", "M", "W", "h">>

LabelPotencia == <<"P", "o", "t", "e", "n", "c", "i", "a", " ", "k", "W">>

LabelPrecioPotencia ==
    <<"P", "r", "e", "c", "i", "o", " ", "P", "o", "t", "e", "n", "c", "i", "a",
      " ", "U", "S", "$", "/", "k", "W">>

LabelPeaje ==
    <<"P", "e", "a", "j", "e", " ", "g", "e", "n", "e", "r", "a", "c", "i", "ó", "n",
      " ", "U", "S", "D", "/", "M", "W", "h">>

AGENTE == <<"A", "G", "E", "N", "T", "E">>

EMPRESA == <<"E", "M", "P", "R", "E", "S", "A">>

\* the substring each page looks for in the column names
LabelOf(p) ==
    CASE p = "energia" -> LabelEnergia
      [] p = "potencia" -> LabelPotencia
      [] p = "potencia_distribuidoras" -> LabelPotencia
      [] p = "precio_potencia" -> LabelPrecioPotencia
      [] p = "precios_peaje_distribucion" -> LabelPeaje

---------------------------------------------------------------------------
(* The raw table.  A spreadsheet is                                        *)
(*   [kind, idcols, cols, rows]                                            *)
(* kind "ok", "missing" (no file) or "nodir" (no data directory); idcols  *)
(* the headers of its two identity columns, cols the headers of its value *)
(* columns, rows its rows [AGENTE, EMPRESA, cells], one cell per value    *)
(* column.                                                                 *)

FileColumns(f) == f.idcols \o f.cols

\* the cell of the row in the k-th column of the spreadsheet
CellAt(row, k) ==
    IF k = 1 THEN row.AGENTE ELSE IF k = 2 THEN row.EMPRESA ELSE row.cells[k - 2]

\* the indices i of 1..n with P[i], ascending, as a sequence
RECURSIVE Indices(_, _)
Indices(keep, n) ==
    IF n = 0 THEN <<>>
    ELSE IF n \in keep THEN Append(Indices(keep, n - 1), n)
    ELSE Indices(keep, n - 1)

\* pd.read_excel(file_path, usecols=...): the columns named by src, in the
\* spreadsheet's order
read_excel(f, keep) ==
    LET src == Indices(keep, Len(FileColumns(f)))
    IN  [columns |-> [i \in 1..Len(src) |-> FileColumns(f)[src[i]]],
         src |-> src,
         rows |-> f.rows]

AllColumns(f) == 1..Len(FileColumns(f))

\* df.empty
empty(frame) == Len(frame.rows) = 0 \/ Len(frame.columns) = 0

\* df.columns = df.columns.str.strip()
strip_columns(frame) ==
    [frame EXCEPT !.columns = [i \in 1..Len(frame.columns) |-> Strip(frame.columns[i])]]

\* [col for col in df.columns if label in col], as positions in df.columns
value_columns(frame, label) ==
    Indices({i \in 1..Len(frame.columns) : Contains(label, frame.columns[i])},
            Len(frame.columns))

HasColumn(frame, name) == \E i \in 1..Len(frame.columns) : frame.columns[i] = name

ColumnPos(frame, name) == CHOOSE i \in 1..Len(frame.columns) : frame.columns[i] = name

\* df[name] of one row
Value(frame, row, name) == CellAt(row, frame.src[ColumnPos(frame, name)])

\* pd.concat(dfs)
RECURSIVE concat(_)
concat(dfs) ==
    IF Len(dfs) = 0 THEN <<>> ELSE dfs[1] \o concat(Tail(dfs))

---------------------------------------------------------------------------
(* What a load returns: None, or the long table, a sequence of records    *)
(*   [AGENTE, EMPRESA, FECHA, Valor, Periodo]                              *)
(* (Valor is the column named after the page's measurement label).        *)

None == [none |-> TRUE, rows |-> <<>>]

Table(rows) == [none |-> FALSE, rows |-> rows]

Msg(level, text) == [level |-> level, text |-> text, period |-> <<>>]

Warn(text, period) == [level |-> "warning", text |-> text, period |-> period]

Result(d, m, e) == [df |-> d, msgs |-> m, end_date |-> e]

---------------------------------------------------------------------------
(* Steps shared by the pages that map the period through date_mapping *)

\* the mapping of energia, potencia and potencia_distribuidoras:
\* 2023-01 through 2025-12, keyed MMYYYY
DateMappingFixed == BuildDateMapping(start_date, fixed_end_date, "%m%Y", EmptyMapping)

\* the slip period[:2] + period[3:]: one character of the code is lost
formatted_period_shifted(period) == Slice(period, 0, 2) \o Slice(period, 3, Len(period))

\* formatted_period = period[:2] + period[2:]
formatted_period(period) == Slice(period, 0, 2) \o Slice(period, 2, Len(period))

\* transformed_df['FECHA'] = pd.to_datetime(transformed_df['FECHA'])
parse_fecha(rows) ==
    [i \in 1..Len(rows) |-> [rows[i] EXCEPT !.FECHA = to_datetime(rows[i].FECHA)]]

\* the filter on FECHA left out
drop_nat_forgotten(rows) == rows

\* transformed_df[transformed_df['FECHA'].notna()]
drop_nat(rows) == SelectSeq(rows, LAMBDA r : notna(r.FECHA))

\* the body of "for col in price_columns" on energia and potencia: the
\* partial table of the value column at position j
temp_df_energia(frame, j, date_mapping) ==
    LET col == frame.columns[j]
        period == LastToken(col)
    IN  [i \in 1..Len(frame.rows) |->
            [AGENTE |-> Value(frame, frame.rows[i], AGENTE),
             EMPRESA |-> Value(frame, frame.rows[i], EMPRESA),
             FECHA |-> MappingGet(date_mapping, formatted_period(period)),
             Valor |-> CellAt(frame.rows[i], frame.src[j]),
             Periodo |-> period]]

\* load_and_transform_data of energia.py, for the label of the page
load_energia(f, label) ==
    LET info == Msg("info", "Buscando archivo en")
    IN  IF f.kind = "nodir"
        THEN Result(None, {info, Msg("error", "Directorio no encontrado"),
                           Msg("error", "Archivos disponibles")}, NaT)
        ELSE IF f.kind = "missing"
        THEN Result(None, {info, Msg("error", "Archivo no encontrado"),
                           Msg("error", "Archivos disponibles")}, NaT)
        ELSE
        LET raw == read_excel(f, AllColumns(f))
        IN  IF empty(raw)
            THEN Result(None, {info, Msg("error", "El archivo está vacío")}, NaT)
            ELSE
            LET frame == strip_columns(raw)
                price_columns == value_columns(frame, label)
                \* KeyError of df[['AGENTE', 'EMPRESA', col]], or the
                \* ValueError of pd.concat([]): caught by "except Exception"
                raises ==
                    \/ Len(price_columns) = 0
                    \/ ~HasColumn(frame, AGENTE)
                    \/ ~HasColumn(frame, EMPRESA)
                dfs == [k \in 1..Len(price_columns) |->
                           temp_df_energia(frame, price_columns[k], DateMappingFixed)]
            IN  IF raises
                THEN Result(None, {info, Msg("error", "Error al cargar datos")},
                            fixed_end_date)
                ELSE Result(Table(drop_nat(parse_fecha(concat(dfs)))), {info},
                            fixed_end_date)

\* load_and_transform_data of potencia.py: the same code with its own label
load_potencia(f, label) == load_energia(f, label)

---------------------------------------------------------------------------
(* precio_potencia.py *)

\* datetime.today() of a run
Todays ==
    {[year |-> 2023, month |-> 3, day |-> 15],
     [year |-> 2026, month |-> 11, day |-> 1]}

\* the mapping of precio_potencia: 2023-01 through the month of the run,
\* keyed mmyy; it depends on the day of the run only
DateMappingUntil ==
    [today \in Todays |-> BuildDateMapping(start_date, today, "%m%y", EmptyMapping)]

temp_df_precio_potencia(frame, j, date_mapping) ==
    LET col == frame.columns[j]
        period == LastToken(col)
    IN  [i \in 1..Len(frame.rows) |->
            [AGENTE |-> Value(frame, frame.rows[i], AGENTE),
             EMPRESA |-> Value(frame, frame.rows[i], EMPRESA),
             FECHA |-> MappingGet(date_mapping, period),
             Valor |-> CellAt(frame.rows[i], frame.src[j]),
             Periodo |-> period]]

\* load_and_transform_data of precio_potencia.py; today is datetime.today()
load_precio_potencia(f, label, today) ==
    IF f.kind # "ok"
    THEN Result(None, {Msg("error", "Archivo no encontrado")}, NaT)
    ELSE
    LET raw == read_excel(f, AllColumns(f))
    IN  IF empty(raw)
        THEN Result(None, {Msg("error", "El archivo está vacío")}, NaT)
        ELSE
        LET frame == strip_columns(raw)
            price_columns == value_columns(frame, label)
            date_mapping == DateMappingUntil[today]
            raises ==
                \/ Len(price_columns) = 0
                \/ ~HasColumn(frame, AGENTE)
                \/ ~HasColumn(frame, EMPRESA)
            dfs == [k \in 1..Len(price_columns) |->
                       temp_df_precio_potencia(frame, price_columns[k], date_mapping)]
        IN  IF raises
            THEN Result(None, {Msg("error", "Error al cargar datos")}, today)
            ELSE Result(Table(drop_nat(parse_fecha(concat(dfs)))), {}, today)

---------------------------------------------------------------------------
(* precios_peaje_distribucion.py *)

\* "Convertir código MES/AÑO a fecha": [ok, date, warned]; warned is the
\* st.warning of the except branch, a code of another length is skipped
\* without one
period_to_date(period_code) ==
    LET skip == [ok |-> FALSE, date |-> NaT, warned |-> FALSE]
        fail == [ok |-> FALSE, date |-> NaT, warned |-> TRUE]
        make(month, year) ==
            IF ~month.ok \/ ~year.ok THEN fail
            ELSE LET date == datetime(year.n, month.n, 1)
                 IN  IF date.ok THEN [ok |-> TRUE, date |-> date.v, warned |-> FALSE]
                     ELSE fail
    IN  IF Len(period_code) = 5
        THEN make(int(Slice(period_code, 0, 1)), int(Slice(period_code, 1, 5)))
        ELSE IF Len(period_code) = 6
        THEN make(int(Slice(period_code, 0, 2)), int(Slice(period_code, 2, 6)))
        ELSE skip

\* pd.to_numeric(temp_df[col].astype(str).str.replace(',', ''), errors='coerce')
coerce_numeric(cell) == to_numeric(RemoveChar(astype_str(cell), ","))

temp_df_peaje(frame, j, date) ==
    LET col == frame.columns[j]
        period_code == Strip(LastToken(col))
    IN  [i \in 1..Len(frame.rows) |->
            [AGENTE |-> Value(frame, frame.rows[i], AGENTE),
             EMPRESA |-> Value(frame, frame.rows[i], EMPRESA),
             FECHA |-> date,
             Valor |-> coerce_numeric(CellAt(frame.rows[i], frame.src[j])),
             Periodo |-> period_code]]

\* transformed_df.dropna(subset=['FECHA', label])
dropna_peaje(rows) == SelectSeq(rows, LAMBDA r : notna(r.FECHA) /\ ~isna(r.Valor))

\* load_and_transform_data of precios_peaje_distribucion.py
load_peaje(f, label) ==
    IF f.kind # "ok"
    THEN Result(None, {Msg("error", "Archivo no encontrado")}, NaT)
    ELSE
    LET raw == read_excel(f, AllColumns(f))
    IN  IF empty(raw)
        THEN Result(None, {Msg("error", "El archivo está vacío")}, NaT)
        ELSE
        LET frame == strip_columns(raw)
            price_columns == value_columns(frame, label)
            code(k) == Strip(LastToken(frame.columns[price_columns[k]]))
            good == Indices({k \in 1..Len(price_columns) : period_to_date(code(k)).ok},
                            Len(price_columns))
            \* the KeyError of df[['AGENTE', 'EMPRESA', col]] at the first
            \* converted column ends the loop in "except Exception"
            raises ==
                /\ Len(good) > 0
                /\ ~HasColumn(frame, AGENTE) \/ ~HasColumn(frame, EMPRESA)
            reached == IF raises THEN good[1] ELSE Len(price_columns)
            warnings == {Warn("Error convirtiendo periodo", code(k)) :
                            k \in {x \in 1..reached : period_to_date(code(x)).warned}}
            dfs == [g \in 1..Len(good) |->
                       temp_df_peaje(frame, price_columns[good[g]],
                                     period_to_date(code(good[g])).date)]
        IN  IF raises
            THEN Result(None, warnings \cup {Msg("error", "Error al cargar datos")}, NaT)
            ELSE IF Len(good) = 0
            THEN Result(None, warnings \cup
                    {Msg("error", "No se pudieron procesar columnas de precios")}, NaT)
            ELSE Result(Table(dropna_peaje(concat(dfs))), warnings, NaT)

---------------------------------------------------------------------------
(* potencia_distribuidoras.py *)

\* usecols=lambda x: "Potencia kW" in x or x in ['AGENTE', 'EMPRESA'],
\* asked of the names as the spreadsheet holds them
usecols(f, label) ==
    {k \in AllColumns(f) :
        \/ Contains(label, FileColumns(f)[k])
        \/ FileColumns(f)[k] \in {AGENTE, EMPRESA}}

\* df.melt(id_vars=['AGENTE', 'EMPRESA'], value_vars=energy_cols, ...): one
\* block of rows per value column (no row for an empty value_vars)
melt(frame, energy_cols) ==
    concat([k \in 1..Len(energy_cols) |->
        [i \in 1..Len(frame.rows) |->
            [AGENTE |-> Value(frame, frame.rows[i], AGENTE),
             EMPRESA |-> Value(frame, frame.rows[i], EMPRESA),
             FECHA |-> NaTStr,
             Valor |-> CellAt(frame.rows[i], frame.src[energy_cols[k]]),
             Periodo |-> frame.columns[energy_cols[k]]]]])

\* "Extraer periodo y mapear fecha"
map_periodo(melted, date_mapping) ==
    [i \in 1..Len(melted) |->
        LET x == LastToken(melted[i].Periodo)
        IN  [melted[i] EXCEPT
                !.Periodo = x,
                !.FECHA = MappingGet(date_mapping, Slice(x, 0, 2) \o Slice(x, 2, Len(x)))]]

\* the filter on FECHA left out
drop_unmapped_forgotten(melted) == melted

\* melted[melted['FECHA'].notna()], on the values of the mapping
drop_unmapped(melted) == SelectSeq(melted, LAMBDA r : r.FECHA # NaTStr)

\* load_and_transform_data of potencia_distribuidoras.py
load_potencia_distribuidoras(f, label) ==
    IF f.kind # "ok"
    THEN Result(None, {Msg("error", "Archivo no encontrado")}, NaT)
    ELSE
    LET raw == read_excel(f, usecols(f, label))
    IN  IF empty(raw)
        THEN Result(None, {Msg("error", "El archivo está vacío")}, NaT)
        ELSE
        LET frame == strip_columns(raw)
            energy_cols == value_columns(frame, label)
            \* melt's KeyError for an id_vars column the frame does not hold
            raises == ~HasColumn(frame, AGENTE) \/ ~HasColumn(frame, EMPRESA)
        IN  IF raises
            THEN Result(None, {Msg("error", "Error al cargar datos")}, fixed_end_date)
            ELSE Result(Table(parse_fecha(drop_unmapped(
                            map_periodo(melt(frame, energy_cols), DateMappingFixed)))),
                        {}, fixed_end_date)

---------------------------------------------------------------------------
(* The inputs the model draws: spreadsheets and the day of the run *)

\* period codes met in the headers: the three encodings, months 13, codes
\* before and after the horizons, a signed code, letters, a 7-character code
PeriodCodes ==
    {<<"0", "1", "2", "0", "2", "3">>,
     <<"1", "2", "2", "0", "2", "5">>,
     <<"1", "3", "2", "0", "2", "3">>,
     <<"0", "1", "2", "0", "2", "6">>,
     <<"0", "1", "2", "0", "2", "2">>,
     <<"1", "2", "0", "2", "3">>,
     <<"+", "1", "2", "0", "2", "3">>,
     <<"a", "b", "2", "0", "2", "3">>,
     <<"0", "1", "2", "0", "2", "3", "1">>,
     <<"0", "1", "2", "3">>,
     <<"1", "3", "2", "3">>,
     <<"0", "6", "2", "4">>,
     <<"0", "1", "2", "7">>}

\* a code each page accepts, and one it rejects
GoodCode(p) ==
    IF p = "precio_potencia" THEN <<"0", "1", "2", "3">>
    ELSE <<"0", "1", "2", "0", "2", "3">>

BadCode(p) ==
    IF p = "precio_potencia" THEN <<"1", "3", "2", "3">>
    ELSE <<"1", "3", "2", "0", "2", "3">>

\* a measurement label the page does not select
OtherLabel(p) == IF p = "energia" THEN LabelPotencia ELSE LabelEnergia

Header(label, code) == label \o <<" ">> \o code

Padded(h) == <<" ">> \o h \o <<" ", " ">>

Prefixed(h) == <<"T", "o", "t", "a", "l", " ">> \o h

\* headers of value columns: one per period code, and for the accepted code
\* a padded one, one with a leading word and one of another measurement
ColHeaders(p) ==
    {Header(LabelOf(p), c) : c \in PeriodCodes}
        \cup {Padded(Header(LabelOf(p), GoodCode(p))),
              Prefixed(Header(LabelOf(p), GoodCode(p))),
              Header(OtherLabel(p), GoodCode(p))}

RowHeaders(p) ==
    {Header(LabelOf(p), GoodCode(p)),
     Prefixed(Header(LabelOf(p), GoodCode(p))),
     Header(LabelOf(p), BadCode(p))}

\* headers of the identity columns, as written and with whitespace around
IdHeaders ==
    {<<AGENTE, EMPRESA>>,
     <<<<" ">> \o AGENTE, EMPRESA>>,
     <<AGENTE, EMPRESA \o <<" ">>>>}

\* sequences of 1..n headers of H, no two alike once trimmed (a spreadsheet
\* names its columns apart)
HeaderSeqs(H, n) ==
    {s \in UNION {[1..k -> H] : k \in 1..n} :
        \A i, j \in 1..Len(s) : i < j => Strip(s[i]) # Strip(s[j])}

\* rows of a table of n value columns.  Two agents of one company, an agent
\* name that a second company uses too, and first cells that hold a blank, a
\* number written with a thousands separator, a text that is no number; the
\* cells after the first are numbers
Row(agent, empresa, first, n) ==
    [AGENTE |-> agent, EMPRESA |-> empresa,
     cells |-> [j \in 1..n |-> IF j = 1 THEN first ELSE Num(200)]]

RowsOf(n) ==
    {Row("X", "EMPRESA_A", Num(100), n),
     Row("Y", "EMPRESA_A", Num(200), n),
     Row("X", "EMPRESA_B", Num(100), n),
     Row("X", "EMPRESA_A", NaN, n),
     Row("Y", "EMPRESA_A", Text(<<"1", ",", "2", "3", "4">>), n),
     Row("Y", "EMPRESA_B", Text(<<"a", "b", "c">>), n)}

PlainRow(n) == Row("X", "EMPRESA_A", Num(100), n)

File(kind, idcols, cols, rows) ==
    [kind |-> kind, idcols |-> idcols, cols |-> cols, rows |-> rows]

\* tables of one plain row whose value headers vary
ColFiles(p) ==
    {File("ok", <<AGENTE, EMPRESA>>, cols, <<PlainRow(Len(cols))>>) :
        cols \in HeaderSeqs(ColHeaders(p), MaxCols)}

\* tables of one plain row whose identity headers vary
IdFiles(p) ==
    {File("ok", ids, cols, <<PlainRow(Len(cols))>>) :
        ids \in IdHeaders, cols \in HeaderSeqs(RowHeaders(p), MaxCols)}

\* tables of few headers whose rows vary
RowFiles(p) ==
    UNION {{File("ok", <<AGENTE, EMPRESA>>, cols, rows) :
                rows \in UNION {[1..k -> RowsOf(Len(cols))] : k \in 1..MaxRows}} :
           cols \in HeaderSeqs(RowHeaders(p), MaxCols)}

\* no data directory, no file, a table of no row, a table of no value column
SpecialFiles(p) ==
    {File("nodir", <<AGENTE, EMPRESA>>, <<>>, <<>>),
     File("missing", <<AGENTE, EMPRESA>>, <<>>, <<>>),
     File("ok", <<AGENTE, EMPRESA>>, <<Header(LabelOf(p), GoodCode(p))>>, <<>>),
     File("ok", <<AGENTE, EMPRESA>>, <<>>, <<PlainRow(0)>>)}

Files(p) == ColFiles(p) \cup IdFiles(p) \cup RowFiles(p) \cup SpecialFiles(p)

---------------------------------------------------------------------------
(* The state machine: a page script starts, loads, and stops if the load  *)
(* returned None                                                           *)

\* what st.selectbox returns when it has no option: Python's None
NoOption == "None"

\* a tab the script has not reached
NotRendered == [rendered |-> FALSE]

\* st.cache_data before the first call of the function
NoEntry == [key |-> <<>>, value |-> Result(None, {}, NaT)]

\* the key of a call: st.cache_data hashes the function and the arguments of
\* the call, and load_and_transform_data() takes no argument; the
\* spreadsheet is no part of it
cache_key(p, f) == <<p>>

\* a cache that holds nothing
never_cached(c, key) == FALSE

\* whether the cache answers the call
cached(c, key) == c.key = key

\* the script is at its first line: nothing loaded, no widget drawn
Started ==
    /\ df = None
    /\ end_date = NaT
    /\ msgs = {}
    /\ pc = "start"
    /\ tz = 0
    /\ selected_range = <<>>
    /\ df_filtered = <<>>
    /\ selected_empresa = NoOption
    /\ agentes_disponibles = <<>>
    /\ selected_agente = NoOption
    /\ tab1 = NotRendered
    /\ tab2 = NotRendered
    /\ cache = NoEntry
    /\ computed = 0
    /\ runs = 1
    /\ changed = FALSE

Init ==
    /\ page \in Pages
    /\ file \in Files(page)
    /\ Started

\* df = load_and_transform_data(); if df is None: st.stop()
\* the body of the function ran and st.cache_data keeps what it returned,
\* None included, with the messages it showed
Loaded(r) ==
    /\ df' = r.df
    /\ msgs' = r.msgs
    /\ end_date' = r.end_date
    /\ pc' = IF r.df = None THEN "stopped" ELSE "loaded"
    /\ cache' = [key |-> cache_key(page, file), value |-> r]
    /\ computed' = computed + 1
    /\ UNCHANGED <<page, file, runs, changed>>
    /\ UNCHANGED view_vars

LoadEnergia ==
    /\ pc = "start"
    /\ page = "energia"
    /\ Loaded(load_energia(file, LabelEnergia))

LoadPotencia ==
    /\ pc = "start"
    /\ page = "potencia"
    /\ Loaded(load_potencia(file, LabelPotencia))

LoadPotenciaDistribuidoras ==
    /\ pc = "start"
    /\ page = "potencia_distribuidoras"
    /\ Loaded(load_potencia_distribuidoras(file, LabelPotencia))

LoadPrecioPotencia ==
    /\ pc = "start"
    /\ page = "precio_potencia"
    /\ \E today \in Todays : Loaded(load_precio_potencia(file, LabelPrecioPotencia, today))

LoadPeaje ==
    /\ pc = "start"
    /\ page = "precios_peaje_distribucion"
    /\ Loaded(load_peaje(file, LabelPeaje))

Next ==
    \/ LoadEnergia
    \/ LoadPotencia
    \/ LoadPotenciaDistribuidoras
    \/ LoadPrecioPotencia
    \/ LoadPeaje

Spec == Init /\ [][Next]_vars

---------------------------------------------------------------------------
(* Vocabulary of the properties *)

PeajePage == "precios_peaje_distribucion"

Ran == pc \in {"loaded", "stopped"}

\* the value columns of the spreadsheet whose trimmed name holds the label
Selected == {j \in 1..Len(file.cols) : Contains(LabelOf(page), Strip(file.cols[j]))}

\* the period code of value column j: the last word of its header
CodeOf(j) == LastToken(Strip(file.cols[j]))

\* the month a period code denotes in the encoding of the page, read off its
\* digits: MMYYYY; on the peaje page also MYYYY; mmyy (of 20yy) on
\* precio_potencia
Denoted(p, code) ==
    LET no == [ok |-> FALSE, year |-> 0, month |-> 0]
        ym(y, m) == IF m \in 1..12 THEN [ok |-> TRUE, year |-> y, month |-> m] ELSE no
    IN  IF ~AllDigits(code) THEN no
        ELSE IF p = "precio_potencia"
        THEN IF Len(code) = 4
             THEN ym(2000 + 10 * DigitVal(code[3]) + DigitVal(code[4]),
                     10 * DigitVal(code[1]) + DigitVal(code[2]))
             ELSE no
        ELSE IF Len(code) = 6
        THEN ym(1000 * DigitVal(code[3]) + 100 * DigitVal(code[4])
                    + 10 * DigitVal(code[5]) + DigitVal(code[6]),
                10 * DigitVal(code[1]) + DigitVal(code[2]))
        ELSE IF p = PeajePage /\ Len(code) = 5
        THEN ym(1000 * DigitVal(code[2]) + 100 * DigitVal(code[3])
                    + 10 * DigitVal(code[4]) + DigitVal(code[5]),
                DigitVal(code[1]))
        ELSE no

\* the horizon of the page: from 2023-01 through 2025-12, or through the
\* month of the run on precio_potencia; the peaje page states no end
InHorizon(p, d, end) ==
    /\ d.ok
    /\ d.year > 2023 \/ (d.year = 2023 /\ d.month >= 1)
    /\ \/ p = PeajePage
       \/ d.year < end.year
       \/ d.year = end.year /\ d.month <= end.month

FirstOfMonth(y, m) == [year |-> y, month |-> m, day |-> 1]

\* the date the code of the page gives a period code (NaT: none)
ParsedDate(p, code, today) ==
    CASE p \in {"energia", "potencia"} ->
            to_datetime(MappingGet(DateMappingFixed, formatted_period(code)))
      [] p = "potencia_distribuidoras" ->
            to_datetime(MappingGet(DateMappingFixed,
                                   Slice(code, 0, 2) \o Slice(code, 2, Len(code))))
      [] p = "precio_potencia" ->
            to_datetime(MappingGet(DateMappingUntil[today], code))
      [] p = PeajePage -> period_to_date(code).date

\* the day of the run as far as the load read it
RunDay == IF end_date \in Todays THEN end_date ELSE CHOOSE t \in Todays : TRUE

RecordsOf(code) == {k \in 1..Len(df.rows) : df.rows[k].Periodo = code}

---------------------------------------------------------------------------
(* C1: on every page, a period code of the page's encoding that denotes a  *)
(* month of the page's horizon tags the records of its column with the     *)
(* first day of exactly that month and year: when the load returns a      *)
(* table, every row with a number in the column has its record, and every *)
(* record of that period code carries that date.                          *)
C1_CodeTagsFirstOfItsMonth ==
    pc = "loaded" =>
        \A j \in Selected :
            LET d == Denoted(page, CodeOf(j))
            IN  InHorizon(page, d, end_date) =>
                    /\ \A i \in 1..Len(file.rows) :
                          file.rows[i].cells[j].k = "num" =>
                              \E k \in RecordsOf(CodeOf(j)) :
                                  /\ df.rows[k].AGENTE = file.rows[i].AGENTE
                                  /\ df.rows[k].EMPRESA = file.rows[i].EMPRESA
                                  /\ df.rows[k].FECHA = FirstOfMonth(d.year, d.month)
                    /\ \A k \in RecordsOf(CodeOf(j)) :
                          df.rows[k].FECHA = FirstOfMonth(d.year, d.month)

\* the header "Energía MWh 012023" gave records dated 2023-01-01
C1_Witness ==
    /\ pc = "loaded"
    /\ page = "energia"
    /\ \E j \in Selected : file.cols[j] = Header(LabelEnergia, <<"0", "1", "2", "0", "2", "3">>)
    /\ \E k \in 1..Len(df.rows) :
          /\ df.rows[k].Periodo = <<"0", "1", "2", "0", "2", "3">>
          /\ df.rows[k].FECHA = FirstOfMonth(2023, 1)

\* the one-digit-month code "12023" of the peaje page gave 2023-01-01
C1_WitnessPeaje ==
    /\ pc = "loaded"
    /\ page = PeajePage
    /\ \E k \in 1..Len(df.rows) :
          /\ df.rows[k].Periodo = <<"1", "2", "0", "2", "3">>
          /\ df.rows[k].FECHA = FirstOfMonth(2023, 1)

---------------------------------------------------------------------------
(* C2: on every page, a period code that is non-numeric, of unrecognized   *)
(* length, or that denotes a month outside the horizon yields no date: no *)
(* record of the long table carries that period code.                     *)
C2_BadCodeYieldsNoRecord ==
    pc = "loaded" =>
        \A j \in Selected :
            ~InHorizon(page, Denoted(page, CodeOf(j)), end_date) =>
                RecordsOf(CodeOf(j)) = {}

---------------------------------------------------------------------------
(* C3: within each encoding the parse is a bijection between accepted     *)
(* codes and the months of the horizon: two distinct accepted codes of    *)
(* one length never give the same date, and every month of the horizon    *)
(* has a code, in each form of the page's encoding, that is accepted and  *)
(* gives that month.                                                       *)
HorizonMonths ==
    {FirstOfMonth(y, m) : y \in {start_date.year, fixed_end_date.year}, m \in {1, 9, 10, 12}}

\* the codes of a month in the encoding of the page
Encodings(p, d) ==
    IF p = "precio_potencia" THEN {ZeroPad(d.month, 2) \o ZeroPad(d.year % 100, 2)}
    ELSE {ZeroPad(d.month, 2) \o ZeroPad(d.year, 4)}
            \cup (IF p = PeajePage /\ d.month < 10
                  THEN {ZeroPad(d.month, 1) \o ZeroPad(d.year, 4)} ELSE {})

C3_ParseIsBijection ==
    pc = "loaded" =>
        /\ \A k1, k2 \in 1..Len(df.rows) :
              (/\ Len(df.rows[k1].Periodo) = Len(df.rows[k2].Periodo)
               /\ df.rows[k1].Periodo # df.rows[k2].Periodo)
                  => df.rows[k1].FECHA # df.rows[k2].FECHA
        /\ \A d \in HorizonMonths :
              InHorizon(page, [ok |-> TRUE, year |-> d.year, month |-> d.month], end_date) =>
                  \A code \in Encodings(page, d) : ParsedDate(page, code, RunDay) = d

---------------------------------------------------------------------------
(* C4: a malformed period code never aborts the load: for a raw table of  *)
(* at least one row with at least one parseable value column, the load    *)
(* returns a long table that holds the records of every parseable column  *)
(* and none of a malformed column.                                         *)
Parseable(j) == InHorizon(page, Denoted(page, CodeOf(j)), end_date)

C4_MalformedCodeNeverAborts ==
    (/\ Ran
     /\ file.kind = "ok"
     /\ Len(file.rows) > 0
     /\ \E j \in Selected : InHorizon(page, Denoted(page, CodeOf(j)),
                                      IF page = "precio_potencia" THEN RunDay
                                      ELSE fixed_end_date))
        =>
        /\ pc = "loaded"
        /\ \A j \in Selected :
              IF Parseable(j)
              THEN \A i \in 1..Len(file.rows) :
                      file.rows[i].cells[j].k = "num" =>
                          \E k \in RecordsOf(CodeOf(j)) :
                              /\ df.rows[k].AGENTE = file.rows[i].AGENTE
                              /\ df.rows[k].EMPRESA = file.rows[i].EMPRESA
              ELSE RecordsOf(CodeOf(j)) = {}

---------------------------------------------------------------------------
(* C5: every value column dropped because its period code gave no date    *)
(* produces a warning that names it, on every page and for every kind of  *)
(* malformed code.                                                         *)
C5_DroppedColumnIsWarned ==
    pc = "loaded" =>
        \A j \in Selected :
            ParsedDate(page, CodeOf(j), RunDay) = NaT =>
                \E m \in msgs : m.level = "warning" /\ m.period = CodeOf(j)

---------------------------------------------------------------------------
(* C6: the long table holds at most one record for every (agent, date).   *)
C6_OneRecordPerAgentAndDate ==
    pc = "loaded" =>
        \A k1, k2 \in 1..Len(df.rows) :
            (/\ df.rows[k1].AGENTE = df.rows[k2].AGENTE
             /\ df.rows[k1].FECHA = df.rows[k2].FECHA)
                => k1 = k2

---------------------------------------------------------------------------
(* C7: a record whose source cell was blank or unparseable is excluded    *)
(* from the long table: every record of the long table holds a number, so *)
(* no sum, mean or ratio over it meets a missing value.                    *)
C7_NoRecordOfMissingCell ==
    pc = "loaded" =>
        \A k \in 1..Len(df.rows) : df.rows[k].Valor.k = "num"

---------------------------------------------------------------------------
(* C8: the long table has at most (raw rows) x (selected value columns)   *)
(* rows, and has that many only if the period code of every selected      *)
(* column was given a date.                                                *)
C8_RowCountBound ==
    pc = "loaded" =>
        /\ Len(df.rows) <= Len(file.rows) * Cardinality(Selected)
        /\ Len(df.rows) = Len(file.rows) * Cardinality(Selected) =>
              \A j \in Selected : ParsedDate(page, CodeOf(j), RunDay) # NaT

\* a table of two selected columns, one of them dropped, with records left
C8_Witness ==
    /\ pc = "loaded"
    /\ Cardinality(Selected) = 2
    /\ Len(file.rows) = 2
    /\ \E j \in Selected : ParsedDate(page, CodeOf(j), RunDay) = NaT
    /\ Len(df.rows) = 2

---------------------------------------------------------------------------
(* C9: every record of the long table has a date that is the first day of *)
(* a month 1..12; none has a missing date.                                 *)
C9_DatesAreFirstOfMonth ==
    pc = "loaded" =>
        \A k \in 1..Len(df.rows) :
            /\ df.rows[k].FECHA # NaT
            /\ df.rows[k].FECHA.day = 1
            /\ df.rows[k].FECHA.month \in 1..12
            /\ df.rows[k].FECHA.year >= 1

\* a long table with records, made from a table one column of which had a
\* code without a date
C9_Witness ==
    /\ pc = "loaded"
    /\ Len(df.rows) > 0
    /\ \E j \in Selected : ParsedDate(page, CodeOf(j), RunDay) = NaT
    /\ \E j \in Selected : RecordsOf(CodeOf(j)) # {}

---------------------------------------------------------------------------
(* C10: column names are matched after trimming all of them: a raw table  *)
(* whose headers, identity columns included, carry leading or trailing    *)
(* whitespace reshapes on every page to the long table of the table with  *)
(* trimmed headers.                                                        *)
Trimmed(f) ==
    [f EXCEPT !.idcols = [i \in 1..Len(f.idcols) |-> Strip(f.idcols[i])],
              !.cols = [i \in 1..Len(f.cols) |-> Strip(f.cols[i])]]

\* the load of the page on a spreadsheet
LoadOf(p, f, today) ==
    CASE p = "energia" -> load_energia(f, LabelEnergia)
      [] p = "potencia" -> load_potencia(f, LabelPotencia)
      [] p = "potencia_distribuidoras" -> load_potencia_distribuidoras(f, LabelPotencia)
      [] p = "precio_potencia" -> load_precio_potencia(f, LabelPrecioPotencia, today)
      [] p = PeajePage -> load_peaje(f, LabelPeaje)

C10_HeadersMatchedAfterTrim ==
    Ran => df = LoadOf(page, Trimmed(file), RunDay).df

---------------------------------------------------------------------------
(* Numbers the pages compute: sums, means and ratios are exact fractions,  *)
(* a division by zero gives what float64 gives (nan or an infinity)        *)

Abs(n) == IF n < 0 THEN -n ELSE n

RECURSIVE Gcd(_, _)
Gcd(a, b) == IF b = 0 THEN a ELSE Gcd(b, a % b)

\* the float num / den, den # 0, in lowest terms
Q(num, den) ==
    LET g == Gcd(Abs(num), Abs(den))
        sgn == IF den < 0 THEN -1 ELSE 1
    IN  [k |-> "num", num |-> sgn * (num \div g), den |-> Abs(den) \div g]

nan == [k |-> "nan", num |-> 0, den |-> 1]

inf(sign) == [k |-> "inf", num |-> sign, den |-> 0]

Sign(n) == IF n < 0 THEN -1 ELSE IF n > 0 THEN 1 ELSE 0

\* a + b of two floats
QAdd(a, b) ==
    IF a.k = "nan" \/ b.k = "nan" THEN nan
    ELSE IF a.k = "inf" /\ b.k = "inf" THEN (IF a.num = b.num THEN a ELSE nan)
    ELSE IF a.k = "inf" THEN a
    ELSE IF b.k = "inf" THEN b
    ELSE Q(a.num * b.den + b.num * a.den, a.den * b.den)

\* a / b of two numpy floats: no ZeroDivisionError, x / 0 is an infinity
\* and 0 / 0 is nan
QDiv(a, b) ==
    IF a.k = "nan" \/ b.k = "nan" THEN nan
    ELSE IF a.k = "inf" /\ b.k = "inf" THEN nan
    ELSE IF a.k = "inf" THEN inf(IF b.num < 0 THEN -a.num ELSE a.num)
    ELSE IF b.k = "inf" THEN Q(0, 1)
    ELSE IF b.num = 0 THEN (IF a.num = 0 THEN nan ELSE inf(Sign(a.num)))
    ELSE Q(a.num * b.den, a.den * b.num)

\* a * n of a float and an integer n > 0
QTimes(a, n) == IF a.k = "num" THEN Q(a.num * n, a.den) ELSE a

\* a < b of two finite floats
QLess(a, b) == a.num * b.den < b.num * a.den

\* Series.round(2): the nearest hundredth, a tie to the even one
round2(a) ==
    IF a.k # "num" THEN a
    ELSE LET x == 100 * a.num
             f == x \div a.den
             r == x % a.den
             up == \/ 2 * r > a.den
                   \/ 2 * r = a.den /\ f % 2 = 1
         IN  Q(IF up THEN f + 1 ELSE f, 100)

\* the values of a column that are not missing, as floats
RECURSIVE Present(_)
Present(cells) ==
    IF Len(cells) = 0 THEN <<>>
    ELSE IF Head(cells).k = "num"
         THEN <<Q(Head(cells).n, 1)>> \o Present(Tail(cells))
         ELSE Present(Tail(cells))

RECURSIVE QSum(_)
QSum(qs) == IF Len(qs) = 0 THEN Q(0, 1) ELSE QAdd(Head(qs), QSum(Tail(qs)))

\* Series.sum(): missing values are skipped, the sum of none is 0
sum(cells) == QSum(Present(cells))

\* Series.mean(): missing values are skipped, the mean of none is nan
mean(cells) ==
    LET qs == Present(cells)
    IN  IF Len(qs) = 0 THEN nan ELSE QDiv(QSum(qs), Q(Len(qs), 1))

\* a text in a numeric column makes it an object column: its sum and its
\* mean raise TypeError
HasText(cells) == \E i \in 1..Len(cells) : cells[i].k = "text"

---------------------------------------------------------------------------
(* Instants.  The dates of the long table are first days of a month at     *)
(* 00:00; the sliders also hold instants in between.  An instant is        *)
(* counted in hours on a calendar of 31-day months, which keeps the order  *)
(* of the instants the pages compare.                                      *)

Hours(d) == (((d.year * 12 + (d.month - 1)) * 31) + (d.day - 1)) * 24

\* pd.Timestamp(selected_range[0]) of the datetime slider: the same instant
Timestamp(t) == t

\* datetime.timestamp(d): the POSIX time of the naive d read on the local
\* clock, which is offset hours ahead of UTC
datetime_timestamp(t, offset) == t - offset

\* Timestamp.timestamp() of pandas: the POSIX time of the naive d read as UTC
Timestamp_timestamp(t) == t

\* datetime.fromtimestamp(ts): the naive local time of a POSIX time
fromtimestamp(ts, offset) == ts + offset

---------------------------------------------------------------------------
(* The sidebar: the date slider, the date filter, the two selectboxes *)

\* Series.unique(): the values in the order of their first appearance
RECURSIVE unique(_)
unique(values) ==
    IF Len(values) = 0 THEN <<>>
    ELSE LET rest == unique(SubSeq(values, 1, Len(values) - 1))
             last == values[Len(values)]
         IN  IF \E i \in 1..Len(rest) : rest[i] = last THEN rest
             ELSE Append(rest, last)

Range(f) == {f[i] : i \in DOMAIN f}

\* df['FECHA'], df['EMPRESA'], df['AGENTE'] and the value column
FECHA(rows) == [i \in 1..Len(rows) |-> rows[i].FECHA]

EMPRESAS(rows) == [i \in 1..Len(rows) |-> rows[i].EMPRESA]

AGENTES(rows) == [i \in 1..Len(rows) |-> rows[i].AGENTE]

Valores(rows) == [i \in 1..Len(rows) |-> rows[i].Valor]

\* df[df['EMPRESA'] == empresa] and df[df['AGENTE'] == agente]
of_empresa(rows, empresa) == SelectSeq(rows, LAMBDA r : r.EMPRESA = empresa)

of_agente(rows, agente) == SelectSeq(rows, LAMBDA r : r.AGENTE = agente)

\* df['FECHA'].min() and .max() of a table that has rows, as instants
min_date(rows) ==
    CHOOSE t \in Range([i \in 1..Len(rows) |-> Hours(rows[i].FECHA)]) :
        \A i \in 1..Len(rows) : t <= Hours(rows[i].FECHA)

max_date(rows) ==
    CHOOSE t \in Range([i \in 1..Len(rows) |-> Hours(rows[i].FECHA)]) :
        \A i \in 1..Len(rows) : t >= Hours(rows[i].FECHA)

\* hours the local clock of a run may be ahead of UTC (La Paz, UTC, Madrid)
UtcOffsets == {-4, 0, 1}

TimestampPages == {"precio_potencia", "precios_peaje_distribucion"}

\* the clock matters to the pages that put POSIX times on the slider
OffsetsOf(p) == IF p \in TimestampPages THEN UtcOffsets ELSE {0}

\* the value the page puts on its slider for an instant of the table:
\* to_pydatetime(), datetime.timestamp(min_date) or min_date.timestamp()
slider_value(p, t, offset) ==
    IF p = "precio_potencia" THEN datetime_timestamp(t, offset)
    ELSE IF p = "precios_peaje_distribucion" THEN Timestamp_timestamp(t)
    ELSE t

\* the instant the filter compares with, for a value of the slider
filter_bound(p, v, offset) ==
    IF p \in TimestampPages THEN fromtimestamp(v, offset) ELSE Timestamp(v)

\* the slider lets the user stop at its two ends and in between; the model
\* stops at the dates of the table and in the middle of the first month
MidMonth == 14 * 24

SliderStops(p, rows, offset) ==
    LET lo == min_date(rows)
        hi == max_date(rows)
    IN  {slider_value(p, t, offset) :
            t \in {Hours(rows[i].FECHA) : i \in 1..Len(rows)}
                    \cup {u \in {lo + MidMonth} : u < hi}}

\* a filter that takes the first date of the table for the start, and
\* keeps it out
date_filter_after_first(rows, start, end) ==
    SelectSeq(rows, LAMBDA r : Hours(r.FECHA) > min_date(rows) /\ Hours(r.FECHA) <= end)

\* df[(df['FECHA'] >= start_date) & (df['FECHA'] <= end_date)]
date_filter(rows, start, end) ==
    SelectSeq(rows, LAMBDA r : Hours(r.FECHA) >= start /\ Hours(r.FECHA) <= end)

\* the options a selectbox offers, and None when it has none
Options(values) == IF Len(values) = 0 THEN {NoOption} ELSE Range(values)

\* agents of the whole filtered table, whatever their company
agentes_de_todas(rows, empresa) == unique(AGENTES(rows))

\* df_filtered[df_filtered['EMPRESA'] == selected_empresa]['AGENTE'].unique()
agentes_de(rows, empresa) == unique(AGENTES(of_empresa(rows, empresa)))

\* the two selectboxes, once the filtered table is known
Select(rows) ==
    \E empresa \in Options(unique(EMPRESAS(rows))) :
        /\ selected_empresa' = empresa
        /\ agentes_disponibles' = agentes_de(rows, empresa)
        /\ \E agente \in Options(agentes_de(rows, empresa)) :
               selected_agente' = agente

\* the slider is drawn from the dates of the table and the filter keeps the
\* records between the two ends the user chose
SlideAndFilter ==
    \E offset \in OffsetsOf(page) :
    \E v1, v2 \in SliderStops(page, df.rows, offset) :
        /\ v1 <= v2
        /\ tz' = offset
        /\ selected_range' = <<v1, v2>>
        /\ df_filtered' = date_filter(df.rows, filter_bound(page, v1, offset),
                                      filter_bound(page, v2, offset))
        /\ Select(df_filtered')

\* the table has no row: energia, potencia and potencia_distribuidoras show
\* all of it with a warning, precios_peaje_distribucion filters by a default
\* range; precio_potencia takes the timestamp of NaT, which the platform
\* may refuse
NothingToFilter ==
    /\ UNCHANGED <<tz, selected_range>>
    /\ df_filtered' = <<>>
    /\ Select(<<>>)
    /\ \/ pc' = "filtered"
       \/ page = "precio_potencia" /\ pc' = "fault"

\* total_potencia_sistema = df_filtered['Potencia kW'].sum() is computed
\* between the filter and the selectboxes of potencia_distribuidoras
SidebarRaises(p, rows) == p = "potencia_distribuidoras" /\ HasText(Valores(rows))

\* a filter that keeps its result in df
df_after_filter_in_place(d, kept) == Table(kept)

\* df_filtered = df[mask] (df[mask].copy(), or df_filtered = df with no
\* later assignment into it): the filter builds df_filtered and df keeps
\* its records
df_after_filter(d, kept) == d

Sidebar ==
    /\ pc = "loaded"
    /\ IF Len(df.rows) = 0
       THEN NothingToFilter
       ELSE /\ SlideAndFilter
            /\ pc' = IF SidebarRaises(page, df_filtered') THEN "fault" ELSE "filtered"
    /\ df' = df_after_filter(df, df_filtered')
    /\ UNCHANGED <<page, file, end_date, msgs, tab1, tab2, session_vars>>

---------------------------------------------------------------------------
(* groupby: the groups come out sorted by their key *)

\* the dates of a set, ascending
RECURSIVE SortDates(_)
SortDates(S) ==
    IF S = {} THEN <<>>
    ELSE LET d == CHOOSE x \in S : \A y \in S : Hours(x) <= Hours(y)
         IN  <<d>> \o SortDates(S \ {d})

\* the company names of the spreadsheets, in the order of Python's str
CompanyNames == <<"EMPRESA_A", "EMPRESA_B">>

NameRank(name) == CHOOSE i \in 1..Len(CompanyNames) : CompanyNames[i] = name

RECURSIVE SortNames(_)
SortNames(S) ==
    IF S = {} THEN <<>>
    ELSE LET n == CHOOSE x \in S : \A y \in S : NameRank(x) <= NameRank(y)
         IN  <<n>> \o SortNames(S \ {n})

on_date(rows, d) == SelectSeq(rows, LAMBDA r : r.FECHA = d)

\* the pages of volumes add the agents up, the pages of prices average them
ExtensivePages == {"energia", "potencia", "potencia_distribuidoras"}

\* .sum() on energia, potencia and potencia_distribuidoras, .mean() on
\* precio_potencia and precios_peaje_distribucion
how(p) == IF p \in ExtensivePages THEN "sum" ELSE "mean"

\* an aggregation that averages where the page adds up
aggregate_mean(kind, cells) == mean(cells)

\* the aggregation a groupby is followed by
aggregate(kind, cells) == IF kind = "sum" THEN sum(cells) ELSE mean(cells)

\* df.groupby('FECHA')[label].sum() or .mean(): one row per date, ascending
groupby_fecha(rows, kind) ==
    LET dates == SortDates(Range(FECHA(rows)))
    IN  [i \in 1..Len(dates) |->
            [FECHA |-> dates[i],
             Valor |-> aggregate(kind, Valores(on_date(rows, dates[i])))]]

\* df.groupby('EMPRESA')[label].sum(): one row per company, ascending
groupby_empresa(rows, kind) ==
    LET names == SortNames(Range(EMPRESAS(rows)))
    IN  [i \in 1..Len(names) |->
            [EMPRESA |-> names[i],
             Valor |-> aggregate(kind, Valores(of_empresa(rows, names[i])))]]

\* df.groupby(['FECHA', 'EMPRESA'])[label].sum() or .mean(): one row per
\* date and company that has records, by date and then by company
RECURSIVE concat_groups(_)
concat_groups(groups) ==
    IF Len(groups) = 0 THEN <<>> ELSE Head(groups) \o concat_groups(Tail(groups))

groupby_fecha_empresa(rows, kind) ==
    LET dates == SortDates(Range(FECHA(rows)))
    IN  concat_groups(
            [i \in 1..Len(dates) |->
                LET byname == groupby_empresa(on_date(rows, dates[i]), kind)
                IN  [j \in 1..Len(byname) |->
                        [FECHA |-> dates[i], EMPRESA |-> byname[j].EMPRESA,
                         Valor |-> byname[j].Valor]]])

\* df_empresa.groupby(['FECHA', 'EMPRESA'])[label].sum() of the selected
\* company (groupby('FECHA') on potencia_distribuidoras)
company_series(p, rows, empresa) == groupby_fecha(of_empresa(rows, empresa), how(p))

\* df_sistema = df_filtered.groupby('FECHA')[label].sum().reset_index()
\* df_sistema[label] = df_sistema[label].round(2)
system_series(p, rows) ==
    LET grouped == groupby_fecha(rows, how(p))
    IN  [i \in 1..Len(grouped) |->
            [FECHA |-> grouped[i].FECHA, Valor |-> round2(grouped[i].Valor)]]

\* df_agente = df_filtered[df_filtered['AGENTE'] == selected_agente]: the
\* records in the order of the long table
agent_series(rows, agente) == of_agente(rows, agente)

---------------------------------------------------------------------------
(* Participation and statistics of potencia_distribuidoras *)

\* a value the page did not compute
NoValue == [k |-> "none", num |-> 0, den |-> 1]

\* the total of the table as loaded, whatever the date filter kept
total_potencia_sin_filtro(rows) == sum(Valores(df.rows))

\* total_potencia_sistema = df_filtered['Potencia kW'].sum()
total_potencia_sistema(rows) == sum(Valores(rows))

\* the share left as a fraction of 1
porcentaje_fraction(potencia_total, total) == QDiv(potencia_total, total)

\* (potencia_total / total_potencia_sistema) * 100
porcentaje(potencia_total, total) == QTimes(QDiv(potencia_total, total), 100)

\* a of the floats a and b, neither nan, is the greater
QGreater(a, b) ==
    IF a.k = "inf" THEN a.num = 1 /\ ~(b.k = "inf" /\ b.num = 1)
    ELSE IF b.k = "inf" THEN b.num = -1
    ELSE QLess(b, a)

\* in a descending sort with the missing values last, a row of key a has to
\* come before a row of key b
Precedes(a, b) == a.k # "nan" /\ (b.k = "nan" \/ QGreater(a, b))

Perms(n) == {f \in [1..n -> 1..n] : \A i, j \in 1..n : f[i] = f[j] => i = j}

\* DataFrame.sort_values(by, ascending=False) with the default quicksort,
\* which is not a stable sort: every order of the rows that is descending
\* in the column "by", whatever the order of rows of equal key
sort_values_desc(rows, by) ==
    {[i \in 1..Len(rows) |-> rows[f[i]]] : f \in
        {g \in Perms(Len(rows)) :
            \A i, j \in 1..Len(rows) : i < j => ~Precedes(rows[g[j]][by], rows[g[i]][by])}}

\* groupby('EMPRESA')[label].sum().assign(Porcentaje=...), before the sort
participacion_por_empresa(rows) ==
    LET totals == groupby_empresa(rows, "sum")
        total == total_potencia_sistema(rows)
    IN  [i \in 1..Len(totals) |->
            [EMPRESA |-> totals[i].EMPRESA, Valor |-> totals[i].Valor,
             Porcentaje |-> porcentaje(totals[i].Valor, total)]]

\* total_por_mes, empresa_por_mes and their merge on FECHA, with the
\* monthly participation of each company
df_participacion(rows) ==
    LET total_por_mes == groupby_fecha(rows, "sum")
        empresa_por_mes == groupby_fecha_empresa(rows, "sum")
        Total_Sistema(d) ==
            total_por_mes[CHOOSE i \in 1..Len(total_por_mes) :
                              total_por_mes[i].FECHA = d].Valor
    IN  [i \in 1..Len(empresa_por_mes) |->
            [FECHA |-> empresa_por_mes[i].FECHA,
             EMPRESA |-> empresa_por_mes[i].EMPRESA,
             Valor |-> empresa_por_mes[i].Valor,
             Total_Sistema |-> Total_Sistema(empresa_por_mes[i].FECHA),
             Participacion |-> porcentaje(empresa_por_mes[i].Valor,
                                          Total_Sistema(empresa_por_mes[i].FECHA))]]

\* min, max and mean of a float column; the mean skips nan
RECURSIVE QMin(_)
QMin(qs) ==
    IF Len(qs) = 0 THEN nan
    ELSE IF Len(qs) = 1 THEN qs[1]
    ELSE LET m == QMin(Tail(qs)) IN IF QLess(qs[1], m) THEN qs[1] ELSE m

RECURSIVE QMax(_)
QMax(qs) ==
    IF Len(qs) = 0 THEN nan
    ELSE IF Len(qs) = 1 THEN qs[1]
    ELSE LET m == QMax(Tail(qs)) IN IF QLess(m, qs[1]) THEN qs[1] ELSE m

QMean(qs) ==
    LET present == SelectSeq(qs, LAMBDA q : q.k # "nan")
    IN  IF Len(present) = 0 THEN nan
        ELSE QDiv(QSum(present), Q(Len(present), 1))

\* statistics taken over the records of a company, not over its monthly sums
stats_of_records(rows) ==
    LET names == SortNames(Range(EMPRESAS(rows)))
        part == df_participacion(rows)
    IN  [i \in 1..Len(names) |->
            LET values == Present(Valores(of_empresa(rows, names[i])))
                mine == SelectSeq(part, LAMBDA r : r.EMPRESA = names[i])
            IN  [EMPRESA |-> names[i],
                 Minimo |-> QMin(values),
                 Promedio |-> QMean(values),
                 Maximo |-> QMax(values),
                 Participacion_Promedio |->
                     QMean([j \in 1..Len(mine) |-> mine[j].Participacion])]]

\* df_participacion.groupby('EMPRESA').agg(Minimo, Promedio, Maximo,
\* Participacion_Promedio), before the sort
stats_por_empresa(rows) ==
    LET part == df_participacion(rows)
        names == SortNames({part[i].EMPRESA : i \in 1..Len(part)})
    IN  [i \in 1..Len(names) |->
            LET mine == SelectSeq(part, LAMBDA r : r.EMPRESA = names[i])
                values == [j \in 1..Len(mine) |-> mine[j].Valor]
            IN  [EMPRESA |-> names[i],
                 Minimo |-> QMin(values),
                 Promedio |-> QMean(values),
                 Maximo |-> QMax(values),
                 Participacion_Promedio |->
                     QMean([j \in 1..Len(mine) |-> mine[j].Participacion])]]

---------------------------------------------------------------------------
(* The two tabs *)

\* energia_promedio_sistema = df_sistema[label].mean(), the metric under the
\* system chart of the first tab: the mean over the dates of the rounded
\* system series; energia, potencia and potencia_distribuidoras compute it
\* only if a record was kept
promedio_sistema_tab1(p, rows) ==
    IF p \in ExtensivePages /\ Len(rows) = 0 THEN NoValue
    ELSE QMean(Valores(system_series(p, rows)))

\* the "Promedio Sistema" metric of the second tab: on energia and potencia
\* df_filtered.groupby('FECHA')[label].sum().mean(), on precio_potencia and
\* precios_peaje_distribucion df_filtered[label].mean(), the mean of all
\* records; potencia_distribuidoras shows none
promedio_sistema_tab2(p, rows) ==
    IF p = "potencia_distribuidoras" THEN NoValue
    ELSE IF p \in ExtensivePages
    THEN IF Len(rows) = 0 THEN NoValue
         ELSE QMean(Valores(groupby_fecha(rows, "sum")))
    ELSE mean(Valores(rows))

\* "Visión Detallada": the series of the agent, of the company and of the
\* system; on potencia_distribuidoras also the participation of the agent,
\* of the company and of every company (porder is the order the sort of
\* the participation table gave)
Tab1(p, rows, empresa, agente, porder) ==
    LET df_agente == agent_series(rows, agente)
        df_empresa == of_empresa(rows, empresa)
        total == total_potencia_sistema(rows)
        ratios == p = "potencia_distribuidoras"
    IN  [rendered |-> TRUE,
         df_agente |-> df_agente,
         df_empresa_prom |-> company_series(p, rows, empresa),
         df_sistema |-> system_series(p, rows),
         promedio_sistema |-> promedio_sistema_tab1(p, rows),
         total_potencia_sistema |-> IF ratios THEN total ELSE NoValue,
         porcentaje_agente |->
             IF ratios /\ Len(df_agente) > 0
             THEN porcentaje(sum(Valores(df_agente)), total) ELSE NoValue,
         porcentaje_empresa |->
             IF ratios /\ Len(df_empresa) > 0
             THEN porcentaje(sum(Valores(df_empresa)), total) ELSE NoValue,
         participacion |-> IF ratios THEN porder ELSE <<>>]

\* "Visión de Promedios": the series of every company; on
\* potencia_distribuidoras also the monthly participation and the
\* statistics table (sorder is the order its sort gave)
Tab2(p, rows, sorder) ==
    LET ratios == p = "potencia_distribuidoras"
    IN  [rendered |-> TRUE,
         df_comparacion |-> groupby_fecha_empresa(rows, how(p)),
         promedio_sistema |-> promedio_sistema_tab2(p, rows),
         df_participacion |-> IF ratios THEN df_participacion(rows) ELSE <<>>,
         stats |-> IF ratios THEN sorder ELSE <<>>]

\* the script runs from the tabs to its last line.  A text among the values
\* makes the sums and means raise TypeError.  With no record left,
\* potencia_distribuidoras skips the statistics and then shows them
\* (NameError), and precios_peaje_distribucion formats the NaT of an empty
\* date column (ValueError).
Render ==
    /\ pc = "filtered"
    /\ IF HasText(Valores(df_filtered))
       THEN /\ pc' = "fault"
            /\ UNCHANGED <<tab1, tab2>>
       ELSE /\ \E porder \in sort_values_desc(participacion_por_empresa(df_filtered),
                                              "Porcentaje") :
                  tab1' = Tab1(page, df_filtered, selected_empresa,
                               selected_agente, porder)
            /\ IF Len(df_filtered) = 0 /\ page = "potencia_distribuidoras"
               THEN /\ tab2' = NotRendered
                    /\ pc' = "fault"
               ELSE /\ \E sorder \in sort_values_desc(stats_por_empresa(df_filtered),
                                                      "Participacion_Promedio") :
                          tab2' = Tab2(page, df_filtered, sorder)
                    /\ pc' = IF Len(df_filtered) = 0
                                  /\ page = "precios_peaje_distribucion"
                             THEN "fault" ELSE "rendered"
    /\ UNCHANGED <<loader_vars, tz, selected_range, df_filtered,
                   selected_empresa, agentes_disponibles, selected_agente,
                   session_vars>>

\* streamlit runs the script again from its first line over the
\* spreadsheet f.  The call of load_and_transform_data is answered from
\* st.cache_data when it holds an entry under the key of the call, and the
\* messages of the cached call are shown again; otherwise the body of the
\* function runs
Run(f) ==
    /\ pc \in {"rendered", "stopped", "fault"}
    /\ runs < MaxRuns
    /\ runs' = runs + 1
    /\ file' = f
    /\ IF cached(cache, cache_key(page, f))
       THEN /\ df' = cache.value.df
            /\ msgs' = cache.value.msgs
            /\ end_date' = cache.value.end_date
            /\ pc' = IF cache.value.df = None THEN "stopped" ELSE "loaded"
       ELSE /\ df' = None
            /\ msgs' = {}
            /\ end_date' = NaT
            /\ pc' = "start"
    /\ tz' = 0
    /\ selected_range' = <<>>
    /\ df_filtered' = <<>>
    /\ selected_empresa' = NoOption
    /\ agentes_disponibles' = <<>>
    /\ selected_agente' = NoOption
    /\ tab1' = NotRendered
    /\ tab2' = NotRendered
    /\ UNCHANGED <<page, cache, computed>>

\* a widget changes, or the user asks for a rerun
Rerun ==
    /\ Run(file)
    /\ UNCHANGED changed

---------------------------------------------------------------------------
(* Spreadsheets of numbers for the filter and the aggregates *)

\* the month after the one of GoodCode
NextCode(p) ==
    IF p = "precio_potencia" THEN <<"0", "2", "2", "3">>
    ELSE <<"0", "2", "2", "0", "2", "3">>

\* two months, and the first month under a second header
ViewHeaders(p) ==
    {Header(LabelOf(p), GoodCode(p)),
     Header(LabelOf(p), NextCode(p)),
     Prefixed(Header(LabelOf(p), GoodCode(p)))}

\* a row whose first cell is first and whose other cells are rest
ViewRow(agent, empresa, first, rest, n) ==
    [AGENTE |-> agent, EMPRESA |-> empresa,
     cells |-> [j \in 1..n |-> IF j = 1 THEN first ELSE rest]]

\* the rows a spreadsheet is made of, in the order it lists them: two agents
\* of a company, a second company, a negative value that cancels another, a
\* row of zeros under an agent name of the first company, a blank, a text,
\* a row of the second company with the values of the first row
Roster(n) ==
    <<ViewRow("X", "EMPRESA_A", Num(100), Num(200), n),
      ViewRow("Y", "EMPRESA_A", Num(200), Num(200), n),
      ViewRow("Z", "EMPRESA_B", Num(700), Num(0), n),
      ViewRow("Y", "EMPRESA_B", Num(-100), Num(100), n),
      ViewRow("X", "EMPRESA_B", Num(0), Num(0), n),
      ViewRow("Y", "EMPRESA_A", NaN, Num(200), n),
      ViewRow("Z", "EMPRESA_B", Text(<<"a", "b", "c">>), Num(200), n),
      ViewRow("Z", "EMPRESA_B", Num(100), Num(200), n)>>

\* 1 to MaxRows rows of the roster
ViewRows(n) ==
    LET roster == Roster(n)
    IN  {[i \in 1..Cardinality(S) |-> roster[Indices(S, Len(roster))[i]]] :
            S \in {T \in SUBSET (1..Len(roster)) :
                      Cardinality(T) >= 1 /\ Cardinality(T) <= MaxRows}}

ViewFiles(p) ==
    UNION {{File("ok", <<AGENTE, EMPRESA>>, cols, rows) : rows \in ViewRows(Len(cols))} :
           cols \in HeaderSeqs(ViewHeaders(p), MaxCols)}
        \cup {File("ok", <<AGENTE, EMPRESA>>, <<Header(LabelOf(p), BadCode(p))>>,
                   <<PlainRow(1)>>)}

---------------------------------------------------------------------------
(* The whole script: load, sidebar, tabs, and again when a widget changes *)

InitView ==
    /\ page \in Pages
    /\ file \in ViewFiles(page)
    /\ Started

NextView ==
    \/ LoadEnergia
    \/ LoadPotencia
    \/ LoadPotenciaDistribuidoras
    \/ LoadPrecioPotencia
    \/ LoadPeaje
    \/ Sidebar
    \/ Render

SpecView == InitView /\ [][NextView]_vars

---------------------------------------------------------------------------
(* A session: the script runs again and again, and the spreadsheet may be  *)
(* replaced between two runs                                               *)

\* the spreadsheets of a session: none, one of no row, one whose only value
\* column has a code outside the mapping, one of a month and an agent, two
\* of two months and two agents
SessionFiles(p) ==
    LET ids == <<AGENTE, EMPRESA>>
        h1 == Header(LabelOf(p), GoodCode(p))
        h2 == Header(LabelOf(p), NextCode(p))
    IN  {File("nodir", ids, <<>>, <<>>),
         File("missing", ids, <<>>, <<>>),
         File("ok", ids, <<h1>>, <<>>),
         File("ok", ids, <<Header(LabelOf(p), BadCode(p))>>, <<PlainRow(1)>>),
         File("ok", ids, <<h1>>, <<Roster(1)[1]>>),
         File("ok", ids, <<h1, h2>>, <<Roster(2)[1], Roster(2)[3]>>),
         File("ok", ids, <<h1, h2>>, <<Roster(2)[2], Roster(2)[4]>>)}

\* the spreadsheet is replaced on disk, and then the script runs again
RerunAfterChange ==
    /\ \E f \in SessionFiles(page) \ {file} : Run(f)
    /\ changed' = TRUE

InitSession ==
    /\ page \in Pages
    /\ file \in SessionFiles(page)
    /\ Started

NextSession ==
    \/ LoadEnergia
    \/ LoadPotencia
    \/ LoadPotenciaDistribuidoras
    \/ LoadPrecioPotencia
    \/ LoadPeaje
    \/ Sidebar
    \/ Render
    \/ Rerun
    \/ RerunAfterChange

SpecSession == InitSession /\ [][NextSession]_vars

---------------------------------------------------------------------------
(* Properties of the date filter *)

\* the slider was drawn and the filter applied to what it holds
SliderDrawn == Len(selected_range) = 2

\* the value of the slider that stands for the date of a record
OnSlider(r) == slider_value(page, Hours(r.FECHA), tz)

\* C11: the date filter keeps exactly the records whose date lies between
\* the two ends of the slider, both ends included; when the two ends are the
\* same instant it keeps exactly the records of that instant.
C11_FilterKeepsClosedInterval ==
    SliderDrawn =>
        df_filtered =
            SelectSeq(df.rows, LAMBDA r : /\ selected_range[1] <= OnSlider(r)
                                          /\ OnSlider(r) <= selected_range[2])

\* C12: filtering the filtered table again by the same interval gives the
\* same records.
C12_FilterIsIdempotent ==
    SliderDrawn =>
        date_filter(df_filtered, filter_bound(page, selected_range[1], tz),
                    filter_bound(page, selected_range[2], tz)) = df_filtered

\* the filter dropped some records and kept others
C12_Witness ==
    /\ SliderDrawn
    /\ Len(df_filtered) > 0
    /\ Len(df_filtered) < Len(df.rows)

---------------------------------------------------------------------------
(* Properties of the series *)

\* the tabs ran on the filtered table
Tab1Ran == tab1.rendered

Tab2Ran == tab2.rendered

\* the values present among the records of a set, added up, and how many
PresentOf(rows) == Present(Valores(rows))

\* the sum on the pages of volumes, the mean on the pages of prices, of the
\* values present among some records
SumOrMean(rows) ==
    IF page \in ExtensivePages THEN QSum(PresentOf(rows))
    ELSE IF Len(PresentOf(rows)) = 0 THEN nan
    ELSE QDiv(QSum(PresentOf(rows)), Q(Len(PresentOf(rows)), 1))

\* a series holds one value per date of the records it is made from
OnePerDate(series, rows) ==
    /\ \A d \in Range(FECHA(rows)) : \E i \in 1..Len(series) : series[i].FECHA = d
    /\ \A i, j \in 1..Len(series) : series[i].FECHA = series[j].FECHA => i = j
    /\ \A i \in 1..Len(series) : series[i].FECHA \in Range(FECHA(rows))

\* C13 as stated: the series of the selected company and the series of the
\* system hold one value per date, the sum of the records of that date on the
\* pages of volumes and their mean on the pages of prices.
C13_SeriesAreSumOrMean ==
    Tab1Ran =>
        LET mine == of_empresa(df_filtered, selected_empresa)
        IN  /\ OnePerDate(tab1.df_empresa_prom, mine)
            /\ \A i \in 1..Len(tab1.df_empresa_prom) :
                   tab1.df_empresa_prom[i].Valor =
                       SumOrMean(on_date(mine, tab1.df_empresa_prom[i].FECHA))
            /\ OnePerDate(tab1.df_sistema, df_filtered)
            /\ \A i \in 1..Len(tab1.df_sistema) :
                   tab1.df_sistema[i].Valor =
                       SumOrMean(on_date(df_filtered, tab1.df_sistema[i].FECHA))

\* C13 as amended: the series of the selected company holds the sum or the
\* mean of each date, the series of the system holds that sum or mean
\* rounded to two decimals.
C13_SystemSeriesIsRounded ==
    Tab1Ran =>
        LET mine == of_empresa(df_filtered, selected_empresa)
        IN  /\ OnePerDate(tab1.df_empresa_prom, mine)
            /\ \A i \in 1..Len(tab1.df_empresa_prom) :
                   tab1.df_empresa_prom[i].Valor =
                       SumOrMean(on_date(mine, tab1.df_empresa_prom[i].FECHA))
            /\ OnePerDate(tab1.df_sistema, df_filtered)
            /\ \A i \in 1..Len(tab1.df_sistema) :
                   LET exact == SumOrMean(on_date(df_filtered, tab1.df_sistema[i].FECHA))
                       shown == tab1.df_sistema[i].Valor
                   IN  \/ exact.k # "num" /\ shown = exact
                       \/ /\ exact.k = "num"
                          /\ shown.k = "num"
                          /\ 100 % shown.den = 0
                          /\ 2 * Abs(shown.num * exact.den - exact.num * shown.den)
                                 <= (exact.den * shown.den) \div 100

\* on a page of prices the mean of a date is no hundredth: the series of
\* the company holds it as it is, the series of the system holds it rounded
C13_Witness ==
    /\ Tab1Ran
    /\ page \notin ExtensivePages
    /\ \E i \in 1..Len(tab1.df_sistema) :
           tab1.df_sistema[i].Valor #
               SumOrMean(on_date(df_filtered, tab1.df_sistema[i].FECHA))
    /\ \E i \in 1..Len(tab1.df_empresa_prom) : tab1.df_empresa_prom[i].Valor.den = 3

\* agents X: 100 and Y: 200 of one company on one date give the company
\* 300 on a page of volumes
C13_WitnessSum ==
    /\ Tab1Ran
    /\ page \in ExtensivePages
    /\ \E i \in 1..Len(tab1.df_empresa_prom) :
           /\ tab1.df_empresa_prom[i].Valor = Q(300, 1)
           /\ Len(on_date(of_empresa(df_filtered, selected_empresa),
                          tab1.df_empresa_prom[i].FECHA)) = 2

---------------------------------------------------------------------------
(* Properties of the participation ratios (potencia_distribuidoras) *)

\* the sum of the values present among some records, an integer
Total(rows) == QSum(PresentOf(rows)).num

RatiosShown == Tab1Ran /\ page = "potencia_distribuidoras"

\* C14: the participation of the selected agent, of the selected company and
\* of every company of the chart is its total over the filtered records,
\* divided by the total of all filtered records, times 100.
C14_RatioIsShareOfTotal ==
    (RatiosShown /\ Total(df_filtered) # 0) =>
        /\ tab1.porcentaje_empresa # NoValue =>
               tab1.porcentaje_empresa =
                   Q(100 * Total(of_empresa(df_filtered, selected_empresa)),
                     Total(df_filtered))
        /\ tab1.porcentaje_agente # NoValue =>
               tab1.porcentaje_agente =
                   Q(100 * Total(of_agente(df_filtered, selected_agente)),
                     Total(df_filtered))
        /\ \A i \in 1..Len(tab1.participacion) :
               tab1.participacion[i].Porcentaje =
                   Q(100 * Total(of_empresa(df_filtered, tab1.participacion[i].EMPRESA)),
                     Total(df_filtered))

\* a company total of 300 against a system total of 1000 gives 30, over an
\* interval that leaves records out
C14_Witness ==
    /\ RatiosShown
    /\ Total(df_filtered) = 1000
    /\ Total(of_empresa(df_filtered, selected_empresa)) = 300
    /\ tab1.porcentaje_empresa = Q(30, 1)
    /\ tab1.porcentaje_agente # NoValue

\* C15: when the total of the filtered records is 0, or the total of a date
\* is 0, the participation ratios over it are nan (no data): the page does
\* not raise, and shows neither 0 nor another number.
C15_ZeroTotalGivesNoData ==
    /\ (pc = "fault" /\ page = "potencia_distribuidoras" /\ Len(df_filtered) > 0)
           => HasText(Valores(df_filtered))
    /\ (RatiosShown /\ Total(df_filtered) = 0) =>
           /\ tab1.porcentaje_empresa \in {NoValue, nan}
           /\ tab1.porcentaje_agente \in {NoValue, nan}
           /\ \A i \in 1..Len(tab1.participacion) :
                  tab1.participacion[i].Porcentaje = nan
    /\ (Tab2Ran /\ page = "potencia_distribuidoras") =>
           \A i \in 1..Len(tab2.df_participacion) :
               tab2.df_participacion[i].Total_Sistema = Q(0, 1) =>
                   tab2.df_participacion[i].Participacion = nan

\* C16: on every date whose total is not 0 the monthly participations of the
\* companies add up to 100, and so do the participations of the chart when
\* the total of the filtered records is not 0.
C16_RatiosAddUpTo100 ==
    /\ (Tab2Ran /\ page = "potencia_distribuidoras") =>
           \A d \in Range(FECHA(df_filtered)) :
               Total(on_date(df_filtered, d)) # 0 =>
                   LET ofdate == SelectSeq(tab2.df_participacion, LAMBDA r : r.FECHA = d)
                   IN  QSum([i \in 1..Len(ofdate) |-> ofdate[i].Participacion]) = Q(100, 1)
    /\ (RatiosShown /\ Total(df_filtered) # 0) =>
           QSum([i \in 1..Len(tab1.participacion) |-> tab1.participacion[i].Porcentaje])
               = Q(100, 1)

\* two companies share a date and the chart, neither with the whole of it
C16_Witness ==
    /\ Tab2Ran
    /\ RatiosShown
    /\ Total(df_filtered) # 0
    /\ Len(tab1.participacion) = 2
    /\ \A i \in 1..2 : tab1.participacion[i].Porcentaje \notin {Q(0, 1), Q(100, 1)}
    /\ \E i, j \in 1..Len(tab2.df_participacion) :
           /\ i # j
           /\ tab2.df_participacion[i].FECHA = tab2.df_participacion[j].FECHA
           /\ tab2.df_participacion[i].Participacion.k = "num"
           /\ tab2.df_participacion[i].Participacion \notin {Q(0, 1), Q(100, 1)}

---------------------------------------------------------------------------
(* Properties of the statistics table (potencia_distribuidoras) *)

StatsShown == Tab2Ran /\ page = "potencia_distribuidoras"

DatesOf(c) == SortDates(Range(FECHA(of_empresa(df_filtered, c))))

\* the sum of a company on a date, and its share of the sum of the date
MonthOf(c, d) == Q(Total(on_date(of_empresa(df_filtered, c), d)), 1)

ShareOf(c, d) ==
    QTimes(QDiv(MonthOf(c, d), Q(Total(on_date(df_filtered, d)), 1)), 100)

---------------------------------------------------------------------------
(* Properties of the agent series and of the agent selectbox *)

\* C19: the series of the selected agent is the filtered records of that
\* agent in ascending order of their dates, whatever the order of the value
\* columns of the spreadsheet.
C19_AgentSeriesByDate ==
    Tab1Ran =>
        /\ \A r \in Range(df_filtered) :
               r.AGENTE = selected_agente =>
                   Cardinality({i \in 1..Len(tab1.df_agente) : tab1.df_agente[i] = r})
                       = Cardinality({i \in 1..Len(df_filtered) : df_filtered[i] = r})
        /\ \A i \in 1..Len(tab1.df_agente) :
               /\ tab1.df_agente[i] \in Range(df_filtered)
               /\ tab1.df_agente[i].AGENTE = selected_agente
        /\ \A i, j \in 1..Len(tab1.df_agente) :
               i < j => Hours(tab1.df_agente[i].FECHA) <= Hours(tab1.df_agente[j].FECHA)

\* the sidebar drew its selectboxes
SelectboxesDrawn == pc \in {"filtered", "rendered"}

\* C20: the agents offered are exactly the agents that have a record of the
\* selected company in the filtered table.
C20_AgentsOfSelectedCompany ==
    SelectboxesDrawn =>
        /\ Range(agentes_disponibles) =
               {df_filtered[i].AGENTE :
                    i \in {k \in 1..Len(df_filtered) :
                              df_filtered[k].EMPRESA = selected_empresa}}
        /\ selected_agente \in Options(agentes_disponibles)

\* the filtered table holds an agent of another company only, not offered
C20_Witness ==
    /\ SelectboxesDrawn
    /\ Len(agentes_disponibles) > 0
    /\ \E r \in Range(df_filtered) :
           /\ r.EMPRESA # selected_empresa
           /\ \A i \in 1..Len(agentes_disponibles) : agentes_disponibles[i] # r.AGENTE

---------------------------------------------------------------------------
(* C21: across reruns of a session whose spreadsheet is not replaced, the  *)
(* read and reshape of load_and_transform_data run at most once: every     *)
(* later run holds the long table the first run materialised, and only    *)
(* the filter and the aggregates run again.                                *)
C21_LoadComputedOnce ==
    ~changed =>
        /\ computed <= 1
        /\ (runs > 1 /\ pc # "start") => (computed = 1 /\ df = cache.value.df)

\* a third run of an unchanged spreadsheet got to its last line over the
\* table of the first
C21_Witness ==
    /\ ~changed
    /\ runs = 3
    /\ computed = 1
    /\ pc = "rendered"
    /\ Len(df_filtered) > 0
    /\ tab2.rendered

---------------------------------------------------------------------------
(* C22: the cached load is keyed by the identity of the spreadsheet: once  *)
(* the spreadsheet was replaced, a run of the script holds the outcome of  *)
(* loading the spreadsheet that is on disk, be it a table or None, not    *)
(* the outcome computed from the one before.                               *)
C22_CacheFollowsInput ==
    (changed /\ pc \in {"loaded", "stopped"}) =>
        \E today \in Todays : df = LoadOf(page, file, today).df

---------------------------------------------------------------------------
(* C23: when the spreadsheet or its directory is missing, or the table    *)
(* read from it has no row, the load shows an error message and returns   *)
(* None, and the page halts before any filter, aggregate or chart step:   *)
(* no slider, no selection, no tab.                                        *)
NoData ==
    \/ file.kind \in {"nodir", "missing"}
    \/ file.kind = "ok" /\ Len(file.rows) = 0

Halted ==
    /\ pc = "stopped"
    /\ df = None
    /\ \E m \in msgs : m.level = "error"
    /\ selected_range = <<>>
    /\ df_filtered = <<>>
    /\ selected_empresa = NoOption
    /\ tab1 = NotRendered
    /\ tab2 = NotRendered

C23_NoDataHalts == (NoData /\ pc # "start") => Halted

---------------------------------------------------------------------------
(* C24: aggregating over no record never ends in an unhandled fault: on    *)
(* every page, when the long table is empty or the chosen interval keeps  *)
(* no record, the script does not raise, and what it shows at its last    *)
(* line is series of no point, a table of no row and no ratio.            *)
NothingKept == pc \in {"filtered", "rendered", "fault"} /\ Len(df_filtered) = 0

C24_EmptySetNeverFaults ==
    NothingKept =>
        /\ pc # "fault"
        /\ pc = "rendered" =>
               /\ tab1.rendered /\ tab2.rendered
               /\ tab1.df_agente = <<>> /\ tab1.df_sistema = <<>>
               /\ tab1.porcentaje_agente = NoValue
               /\ tab2.df_comparacion = <<>> /\ tab2.stats = <<>>

---------------------------------------------------------------------------
(* C25: the long table is a function of the raw table alone: on every     *)
(* page, loading the same spreadsheet on any other day returns the same   *)
(* set of long records as the load that ran.                               *)
C25_LoadIsDeterministic ==
    Ran => \A today \in Todays :
               LET other == LoadOf(page, file, today).df
               IN  /\ other.none = df.none
                   /\ Range(other.rows) = Range(df.rows)

---------------------------------------------------------------------------
(* C26: no filter or aggregate step changes the loaded long table: after  *)
(* any sequence of runs with their date ranges, companies and agents, df  *)
(* holds the records load_and_transform_data returned, with their values. *)
C26_LoadedTableIsNotChanged ==
    pc \in {"loaded", "filtered", "rendered", "fault"} => df = cache.value.df

\* a later run kept only a part of the table and drew its tabs
C26_Witness ==
    /\ runs > 1
    /\ pc = "rendered"
    /\ Len(df_filtered) > 0
    /\ Len(df_filtered) < Len(df.rows)
    /\ tab1.rendered /\ tab2.rendered

---------------------------------------------------------------------------
(* C27: the series of the selected agent, and the statistic and the       *)
(* participation computed from it, use records of the selected company    *)
(* only: every record of df_agente has the selected company, also when    *)
(* the agent's name occurs under another company.                          *)
C27_AgentRecordsOfSelectedCompany ==
    Tab1Ran =>
        \A i \in 1..Len(tab1.df_agente) :
            tab1.df_agente[i].EMPRESA = selected_empresa

---------------------------------------------------------------------------
(* C28: on each page that shows both, the system-average metric of the    *)
(* detailed tab and the one of the comparative tab are equal for every    *)
(* filtered table: both are the mean over the dates of the per-date       *)
(* system aggregate.                                                       *)
C28_SystemAveragesAgree ==
    (Tab1Ran /\ Tab2Ran /\ page # "potencia_distribuidoras") =>
        tab1.promedio_sistema = tab2.promedio_sistema

====
